---- MODULE Spec2Model ----
(***************************************************************************)
(* jiradeps: the dependency crawl of src/main.go (lines 1-496, the latest  *)
(* iteration of the program).  main loops over the issue keys given on     *)
(* the command line; genDepFlowchart fetches each root and getAllLinks     *)
(* walks its links recursively, deduplicating on the string JiraLink       *)
(* produces.  The recursion is modelled with an explicit call stack, one   *)
(* frame per invocation of getAllLinks.                                    *)
(***************************************************************************)
EXTENDS Integers, Sequences, FiniteSets, TLC

(* ------------------------------ bounds -------------------------------- *)

\* Most issue keys on one command line.
MaxRoots == 2

\* Deepest nesting of getAllLinks the model follows.  Every recursion adds
\* a signature to the visited set first, so the program never gets there
\* (DepthWithinBound below); the guard only makes a broken visited set
\* visible as a traversal that cannot finish.
MaxDepth == 8

\* Issues per page of the child search (the server's page size).
PageSize == 1

(* --------------------- the remote tracker's content ------------------- *)

Keys == {"A", "B", "C"}

\* Keys that appear on the command line.
RootKeys == {"A", "B"}

\* The absent reference: link.OutwardIssue == nil / link.InwardIssue == nil.
NoKey == ""

\* IssueLinkType.Outward, the outward phrasing of the link types "Blocks"
\* and "Relates".
Outward(name) == IF name = "Relates" THEN "relates to" ELSE "blocks"

\* The underlying links the tracker may hold, in the order it lists them.
CandidateLinks ==
    << [from |-> "A", type |-> "Blocks",  to |-> "B"],
       [from |-> "B", type |-> "Blocks",  to |-> "C"],
       [from |-> "C", type |-> "Blocks",  to |-> "A"],
       [from |-> "A", type |-> "Relates", to |-> "B"],
       [from |-> "A", type |-> "Blocks",  to |-> "A"],
       [from |-> "B", type |-> "Relates", to |-> "C"] >>

\* How the tracker presents a link on the issues it joins: on both ends (a
\* link object with the outward reference on the source, one with the
\* inward reference on the destination), on the source only, on the
\* destination only, or, for a link from an issue to itself, as one object
\* carrying both references.
Views == {"both", "outOnly", "inOnly", "joint"}

\* The epic's children, as the child search returns them.
ChildLists == { <<>>, <<"B">>, <<"B", "C">>, <<"C", "B">> }

VARIABLES
    jira,        \* the tracker: [links, view, epic, children]
    args,        \* os.Args[1:]
    accepted,    \* the tracker accepts the credentials the requests carry
    startErr,    \* the error main met before its loop, NoError if none
    pc,          \* "start", "main", "traverse", "exited", "panicked"
    rootIdx,     \* position of main's loop over args
    returnCode,  \* main's returnCode
    exitCode,    \* the process exit status, -1 while running
    linkSet,     \* genDepFlowchart's linkSet (a StringSet)
    fc,          \* the flowchart of the current root: [nodes, edges]
    added,       \* the JiraLinks passed to AddLink for the current root
    stack,       \* the active invocations of getAllLinks
    pending,     \* children of the epic still to traverse
    clean,       \* no remote call of the current root has failed
    unresolved,  \* roots whose issue or children could not be obtained
    calls,       \* invocations of getAllLinks for the current root
    done         \* one record per root main has finished with

vars == << jira, args, accepted, startErr, pc, rootIdx, returnCode, exitCode,
           linkSet, fc, added,
           stack, pending, clean, unresolved, calls, done >>

(* ------------------------- jira.Issue values -------------------------- *)

\* The link objects one underlying link e puts on issue k's link list.
LinkObjects(e, k, view) ==
    LET out  == [Type |-> e.type, OutwardIssue |-> e.to, InwardIssue |-> NoKey]
        in   == [Type |-> e.type, OutwardIssue |-> NoKey, InwardIssue |-> e.from]
        both == [Type |-> e.type, OutwardIssue |-> e.to, InwardIssue |-> e.from]
    IN  IF view = "joint" /\ e.from = e.to
        THEN (IF e.from = k THEN << both >> ELSE << >>)
        ELSE (IF e.from = k /\ view # "inOnly" THEN << out >> ELSE << >>)
             \o (IF e.to = k /\ view # "outOnly" THEN << in >> ELSE << >>)

RECURSIVE RemoteLinksFrom(_, _)
RemoteLinksFrom(k, n) ==
    IF n > Len(CandidateLinks) THEN << >>
    ELSE (IF n \in jira.links
          THEN LinkObjects(CandidateLinks[n], k, jira.view) ELSE << >>)
         \o RemoteLinksFrom(k, n + 1)

\* issue.Fields.IssueLinks as the tracker returns it for key k.
RemoteLinks(k) == RemoteLinksFrom(k, 1)

TypeOf(k) == IF k = jira.epic THEN "Epic" ELSE "Story"

\* A successful client.Issue.Get(k): the issue with its links.
FullIssue(k) == [Key |-> k, Type |-> TypeOf(k), IssueLinks |-> RemoteLinks(k)]

\* The issue a link object refers to: key and display fields, no links.
LinkedIssue(k) == [Key |-> k, Type |-> TypeOf(k), IssueLinks |-> << >>]

\* The nil *jira.Issue client.Issue.Get returns with an error.
NilIssue == [Key |-> NoKey, Type |-> "", IssueLinks |-> << >>]

\* client.Issue.Get(key, nil): the issue, or nil when the call fails.
IssueGet(k, ok) == IF ok THEN FullIssue(k) ELSE NilIssue

(* ------------------------------ StringSet ----------------------------- *)

\* Mutant: the set of the root before is kept.
StaleStringSet == linkSet

\* StringSet{}
NewStringSet == {}

\* Mutant: no signature is ever found in the set.
ExistsNever(s, n) == FALSE

\* func (s StringSet) Exists(n string) bool
Exists(s, n) == n \in s

\* Mutant: Add makes a new set that holds n alone.
AddReplaces(s, n) == {n}

\* Mutant: the signature is not inserted.
AddNothing(s, n) == s

\* func (s StringSet) Add(n string)
Add(s, n) == IF n \notin s THEN s \cup {n} ELSE s

(* ------------------------------ JiraLink ------------------------------ *)

\* JiraLink{From: ..., Link: ..., To: ...}; Link is kept by its type name.
JiraLink(from, link, to) == [From |-> from.Key, Type |-> link.Type, To |-> to.Key]

\* Mutant: the signature leaves out the link type.
StringNoType(l) == l.From \o " ==> " \o l.To

\* Mutant: the signature leaves out the destination key.
StringNoTo(l) == l.From \o " == " \o l.Type

\* func (l JiraLink) String() string:
\* fmt.Sprintf("%s == %s ==> %s", l.From.Key, l.Link.Type.Name, l.To.Key)
String(l) == l.From \o " == " \o l.Type \o " ==> " \o l.To

\* lo := JiraLink{From: issue, Link: link, To: link.OutwardIssue}
OutwardLink(issue, link) == JiraLink(issue, link, LinkedIssue(link.OutwardIssue))

\* Mutant: the inward edge is built like the outward one, from the issue.
InwardLinkSwapped(issue, link) == JiraLink(issue, link, LinkedIssue(link.InwardIssue))

\* li := JiraLink{From: link.InwardIssue, Link: link, To: issue}
InwardLink(issue, link) == JiraLink(LinkedIssue(link.InwardIssue), link, issue)

(* ------------------------------ flowchart ----------------------------- *)

\* flowchart.NewFlowchart()
NewFlowchart == [nodes |-> {}, edges |-> << >>]

\* AddJiraNode: fc.GetNode(key), and fc.AddNode(key) when there is none.
AddJiraNode(f, key) == [f EXCEPT !.nodes = @ \cup {key}]

\* strings.EqualFold(name, "relates") on the type names of the model.
IsRelates(name) == name \in {"Relates", "relates", "RELATES"}

\* AddLink: both nodes, then one more edge with the outward phrasing.
AddLink(f, l) ==
    LET g == AddJiraNode(AddJiraNode(f, l.From), l.To)
    IN  [g EXCEPT !.edges = Append(@,
            [from  |-> l.From, to |-> l.To, text |-> Outward(l.Type),
             shape |-> IF IsRelates(l.Type) THEN "ThickLine" ELSE "ThickArrow"])]

\* main: the diagram when len(flow.ListNodes()) > 1, else "None".
Printed(f) == IF Cardinality(f.nodes) > 1 THEN "diagram" ELSE "None"

(* ---------------------------- child search ---------------------------- *)

\* Pages the child search takes: one request even for no children.
NumPages(children) ==
    IF Len(children) = 0 THEN 1 ELSE (Len(children) + PageSize - 1) \div PageSize

PageOf(children, p) ==
    SubSeq(children, (p - 1) * PageSize + 1,
           IF p * PageSize < Len(children) THEN p * PageSize ELSE Len(children))

\* The loop of SearchWithContext from page p on; the request of page
\* failPage fails (0: none does).  A failed client.Do leaves v empty, so
\* nothing is appended, NextPageToken is "" and the loop breaks.  The err
\* assigned in the loop is the loop's own; the named result stays nil.
RECURSIVE SearchLoop(_, _, _, _)
SearchLoop(children, p, issueIDs, failPage) ==
    IF p = failPage THEN issueIDs
    ELSE IF p >= NumPages(children) THEN issueIDs \o PageOf(children, p)
    ELSE SearchLoop(children, p + 1, issueIDs \o PageOf(children, p), failPage)

SearchWithContext(children, failPage) ==
    [issueIDs |-> SearchLoop(children, 1, << >>, failPage), err |-> FALSE]

\* BulkFetchIssues: no request for no ids; else the issues, or an error.
BulkFetchIssues(issueIDs, ok) ==
    IF Len(issueIDs) = 0 THEN [issues |-> << >>, err |-> FALSE]
    ELSE IF ok THEN [issues |-> [i \in 1..Len(issueIDs) |-> FullIssue(issueIDs[i])],
                     err |-> FALSE]
    ELSE [issues |-> << >>, err |-> TRUE]

SearchAndFetch(children, failPage, ok) ==
    LET s == SearchWithContext(children, failPage)
    IN  IF s.err THEN [issues |-> << >>, err |-> TRUE]
        ELSE BulkFetchIssues(s.issueIDs, ok)

\* A request of the child search or of the bulk fetch failed.
ChildCallFailed(children, failPage, ok) ==
    \/ failPage # 0
    \/ ~ok /\ Len(SearchWithContext(children, failPage).issueIDs) > 0

(* -------------------------------- Init -------------------------------- *)

ArgLists == UNION { [1..n -> RootKeys] : n \in 1..MaxRoots }

\* Trackers without an epic: every set of the candidate links shown on both
\* ends; the links around A shown on one end only; a link from A to itself
\* as one object, beside any other links.  Trackers where A is an epic: the
\* links around A, shown on both ends.
Trackers ==
    { [links |-> l, view |-> "both", epic |-> NoKey, children |-> << >>] :
          l \in SUBSET (1..Len(CandidateLinks)) }
    \cup
    { [links |-> l, view |-> v, epic |-> NoKey, children |-> << >>] :
          l \in SUBSET {1, 2, 3, 5}, v \in {"outOnly", "inOnly"} }
    \cup
    { [links |-> l \cup {5}, view |-> "joint", epic |-> NoKey, children |-> << >>] :
          l \in SUBSET (1..Len(CandidateLinks)) }
    \cup
    { [links |-> l, view |-> "both", epic |-> "A", children |-> c] :
          l \in SUBSET {1, 2, 3, 5}, c \in ChildLists }

Init ==
    /\ jira \in Trackers
    /\ args \in ArgLists
    /\ accepted \in BOOLEAN
    /\ startErr = ""
    /\ pc = "start"
    /\ rootIdx = 1
    /\ returnCode = 0
    /\ exitCode = -1
    /\ linkSet = {}
    /\ fc = [nodes |-> {}, edges |-> << >>]
    /\ added = << >>
    /\ stack = << >>
    /\ pending = << >>
    /\ clean = TRUE
    /\ unresolved = 0
    /\ calls = 0
    /\ done = << >>

(* -------------------------------- main -------------------------------- *)

\* One invocation of getAllLinks(issue, ...) at its first statement.
Frame(issue) ==
    [issue |-> issue, given |-> Len(issue.IssueLinks), fetches |-> 0,
     i |-> 1, pc |-> "entry"]

Top == stack[Len(stack)]

SetTop(f) == [stack EXCEPT ![Len(stack)] = f]

\* os.Exit(code): the status the parent process sees.
ExitStatus(code) == code % 256

\* The status of a Go program that dies of a runtime panic.
PanicStatus == 2

\* A nil error.
NoError == ""

\* The states ${HOME}/.config/jiradeps.json can be in when main starts.
CredFiles == {"valid", "absent", "unreadable", "malformed", "incomplete"}

\* getAuthCreds: the error it returns.  A file that cannot be read or parsed
\* is an error; an absent or incomplete one is made up for by prompts and
\* written back, and the write can fail.
GetAuthCreds(file, writeOK) ==
    IF file = "unreadable" THEN "reading file"
    ELSE IF file = "malformed" THEN "unmarshalling file"
    ELSE IF file \in {"absent", "incomplete"} /\ ~writeOK THEN "writing file"
    ELSE NoError

\* jira.NewClient(tp.Client(), baseURL): an error when baseURL does not
\* parse.  No request is sent: the credentials are not tried here.
NewClient(urlOK) == IF urlOK THEN NoError ELSE "parsing base URL"

\* What main prints for the first of the two that fails.
StartupError(file, writeOK, urlOK) ==
    IF GetAuthCreds(file, writeOK) # NoError THEN "Error getting credentials"
    ELSE IF NewClient(urlOK) # NoError THEN "Error making client"
    ELSE NoError

\* os.Exit(1) of the two startup checks.
StartupStatus == 1

\* Mutant: main goes on after a startup error.
StartupNeverFatal(err) == FALSE

\* if err != nil { fmt.Printf(...); os.Exit(1) }
StartupFatal(err) == err # NoError

\* main up to its loop: credentials, transport, client.
Startup ==
    /\ pc = "start"
    /\ \E file \in CredFiles, writeOK \in BOOLEAN, urlOK \in BOOLEAN :
          LET err == StartupError(file, writeOK, urlOK)
          IN  /\ startErr' = err
              /\ IF StartupFatal(err)
                 THEN /\ pc' = "exited"
                      /\ exitCode' = StartupStatus
                 ELSE /\ pc' = "main"
                      /\ UNCHANGED exitCode
    /\ UNCHANGED << jira, args, accepted, rootIdx, returnCode, linkSet, fc, added,
                    stack, pending, clean, unresolved, calls, done >>

\* Mutant: the loop ends at the first root that returns an error.
LoopBreakOnError(i, err) == IF err # NoError THEN Len(args) + 1 ELSE i + 1

\* for _, issueNum := range issues: the loop goes on to the next key
\* whatever genDepFlowchart returned.
LoopNext(i, err) == i + 1

\* The rest of main's loop body once genDepFlowchart has returned err for
\* args[rootIdx]: count the error, print the diagram or "None", go on.
AfterGenDepFlowchart(err, f, log, ok, n) ==
    /\ returnCode' = IF err # NoError THEN returnCode + 1 ELSE returnCode
    /\ done' = Append(done,
           [root |-> args[rootIdx], err |-> err, added |-> log,
            nodes |-> f.nodes, edges |-> Len(f.edges), out |-> Printed(f),
            clean |-> ok, epic |-> TypeOf(args[rootIdx]) = "Epic",
            calls |-> n])
    /\ rootIdx' = LoopNext(rootIdx, err)
    /\ pc' = "main"

\* for _, issueNum := range issues: flow := NewFlowchart(); genDepFlowchart
\* starts with linkSet := StringSet{} and c.Issue.Get of the root.
\* The root cannot be fetched: genDepFlowchart returns the error at once.
GenDepFlowchartGetError ==
    /\ pc = "main"
    /\ rootIdx <= Len(args)
    /\ AfterGenDepFlowchart("error getting issue", NewFlowchart, << >>, FALSE, 0)
    /\ linkSet' = NewStringSet
    /\ fc' = NewFlowchart
    /\ added' = << >>
    /\ calls' = 0
    /\ clean' = FALSE
    /\ unresolved' = unresolved + 1
    /\ UNCHANGED << jira, args, accepted, startErr,
                    exitCode, stack, pending >>

\* The root is fetched and is no Epic: getAllLinks(issue, c, linkSet, fc).
GenDepFlowchartIssue ==
    /\ pc = "main"
    /\ rootIdx <= Len(args)
    /\ accepted
    /\ LET issue == IssueGet(args[rootIdx], TRUE)
       IN  /\ issue.Type # "Epic"
           /\ stack' = << Frame(issue) >>
    /\ pending' = << >>
    /\ linkSet' = NewStringSet
    /\ fc' = NewFlowchart
    /\ added' = << >>
    /\ calls' = 1
    /\ clean' = TRUE
    /\ pc' = "traverse"
    /\ UNCHANGED << jira, args, accepted, startErr,
                    rootIdx, returnCode, exitCode, unresolved, done >>

\* The root is an Epic and SearchAndFetch returns an error.
GenDepFlowchartSearchError ==
    /\ pc = "main"
    /\ rootIdx <= Len(args)
    /\ accepted
    /\ IssueGet(args[rootIdx], TRUE).Type = "Epic"
    /\ \E failPage \in 0..NumPages(jira.children), ok \in BOOLEAN :
          /\ SearchAndFetch(jira.children, failPage, ok).err
          /\ AfterGenDepFlowchart("error searching for child issues",
                                  NewFlowchart, << >>, FALSE, 0)
    /\ linkSet' = NewStringSet
    /\ fc' = NewFlowchart
    /\ added' = << >>
    /\ calls' = 0
    /\ clean' = FALSE
    /\ unresolved' = unresolved + 1
    /\ UNCHANGED << jira, args, accepted, startErr,
                    exitCode, stack, pending >>

\* Mutant: the epic itself is traversed before its children.
EpicSeedsWithEpic(issue, issues) == << issue >> \o issues

\* for _, childIssue := range issues: the issues getAllLinks is called on
\* for an Epic root are the children, in the order SearchAndFetch gave.
EpicSeeds(issue, issues) == issues

\* The root is an Epic and SearchAndFetch returns issues: the loop over
\* them starts.
GenDepFlowchartEpic ==
    /\ pc = "main"
    /\ rootIdx <= Len(args)
    /\ accepted
    /\ IssueGet(args[rootIdx], TRUE).Type = "Epic"
    /\ \E failPage \in 0..NumPages(jira.children), ok \in BOOLEAN :
          LET r == SearchAndFetch(jira.children, failPage, ok)
              failed == ChildCallFailed(jira.children, failPage, ok)
          IN  /\ ~r.err
              /\ pending' = EpicSeeds(IssueGet(args[rootIdx], TRUE), r.issues)
              /\ clean' = ~failed
              /\ unresolved' = IF failed THEN unresolved + 1 ELSE unresolved
    /\ stack' = << >>
    /\ linkSet' = NewStringSet
    /\ fc' = NewFlowchart
    /\ added' = << >>
    /\ calls' = 0
    /\ pc' = "traverse"
    /\ UNCHANGED << jira, args, accepted, startErr,
                    rootIdx, returnCode, exitCode, done >>

\* for _, childIssue := range issues { getAllLinks(&childIssue, ...) }
NextChild ==
    /\ pc = "traverse"
    /\ stack = << >>
    /\ pending # << >>
    /\ stack' = << Frame(Head(pending)) >>
    /\ pending' = Tail(pending)
    /\ calls' = calls + 1
    /\ UNCHANGED << jira, args, accepted, startErr,
                    pc, rootIdx, returnCode, exitCode, linkSet, fc,
                    added, clean, unresolved, done >>

\* genDepFlowchart returns nil after the traversal.
GenDepFlowchartReturn ==
    /\ pc = "traverse"
    /\ stack = << >>
    /\ pending = << >>
    /\ AfterGenDepFlowchart(NoError, fc, added, clean, calls)
    /\ UNCHANGED << jira, args, accepted, startErr,
                    exitCode, linkSet, fc, added, stack, pending,
                    clean, unresolved, calls >>

\* os.Exit(returnCode) after the loop.
MainExit ==
    /\ pc = "main"
    /\ rootIdx > Len(args)
    /\ exitCode' = ExitStatus(returnCode)
    /\ pc' = "exited"
    /\ UNCHANGED << jira, args, accepted, startErr,
                    rootIdx, returnCode, linkSet, fc, added, stack,
                    pending, clean, unresolved, calls, done >>

(* ----------------------------- getAllLinks ---------------------------- *)

\* Mutant: every invocation fetches its issue.
NeedsFetchAlways(issue) == TRUE

\* if len(issue.Fields.IssueLinks) == 0
NeedsFetch(issue) == Len(issue.IssueLinks) = 0

\* The issue has links already: no fetch, on to the loop.
GetAllLinksNoFetch ==
    /\ pc = "traverse"
    /\ stack # << >>
    /\ Top.pc = "entry"
    /\ ~NeedsFetch(Top.issue)
    /\ stack' = SetTop([Top EXCEPT !.pc = "out"])
    /\ UNCHANGED << jira, args, accepted, startErr,
                    pc, rootIdx, returnCode, exitCode, linkSet, fc,
                    added, pending, clean, unresolved, calls, done >>

\* issue, _, _ = client.Issue.Get(issue.Key, nil), and the call succeeds.
GetAllLinksFetch ==
    /\ pc = "traverse"
    /\ stack # << >>
    /\ Top.pc = "entry"
    /\ NeedsFetch(Top.issue)
    /\ accepted
    /\ stack' = SetTop([Top EXCEPT !.issue = IssueGet(Top.issue.Key, TRUE),
                                   !.fetches = @ + 1, !.pc = "out"])
    /\ UNCHANGED << jira, args, accepted, startErr,
                    pc, rootIdx, returnCode, exitCode, linkSet, fc,
                    added, pending, clean, unresolved, calls, done >>

\* The call fails: issue is nil, both results that say so are dropped, and
\* the range over issue.Fields.IssueLinks dereferences nil.  The runtime
\* panic ends the process.
GetAllLinksFetchError ==
    /\ pc = "traverse"
    /\ stack # << >>
    /\ Top.pc = "entry"
    /\ NeedsFetch(Top.issue)
    /\ stack' = SetTop([Top EXCEPT !.issue = IssueGet(Top.issue.Key, FALSE),
                                   !.fetches = @ + 1, !.pc = "out"])
    /\ clean' = FALSE
    /\ pc' = "panicked"
    /\ exitCode' = PanicStatus
    /\ UNCHANGED << jira, args, accepted, startErr,
                    rootIdx, returnCode, linkSet, fc, added,
                    pending, unresolved, calls, done >>

\* The link the loop is at.
Link == Top.issue.IssueLinks[Top.i]

InLoop ==
    /\ pc = "traverse"
    /\ stack # << >>
    /\ Top.pc \in {"out", "in"}
    /\ Top.i <= Len(Top.issue.IssueLinks)

\* if link.OutwardIssue != nil { lo := ...; if !links.Exists(lo.String())
\*     { AddLink(fc, lo); links.Add(lo.String()); getAllLinks(...) } }
OutwardNew ==
    /\ InLoop
    /\ Top.pc = "out"
    /\ Link.OutwardIssue # NoKey
    /\ LET lo == OutwardLink(Top.issue, Link)
       IN  /\ ~Exists(linkSet, String(lo))
           /\ Len(stack) < MaxDepth
           /\ fc' = AddLink(fc, lo)
           /\ added' = Append(added, lo)
           /\ linkSet' = Add(linkSet, String(lo))
           /\ stack' = Append(SetTop([Top EXCEPT !.pc = "in"]),
                              Frame(LinkedIssue(Link.OutwardIssue)))
    /\ calls' = calls + 1
    /\ UNCHANGED << jira, args, accepted, startErr,
                    pc, rootIdx, returnCode, exitCode, pending,
                    clean, unresolved, done >>

\* No outward reference, or its signature is in the set already.
OutwardSkip ==
    /\ InLoop
    /\ Top.pc = "out"
    /\ \/ Link.OutwardIssue = NoKey
       \/ /\ Link.OutwardIssue # NoKey
          /\ Exists(linkSet, String(OutwardLink(Top.issue, Link)))
    /\ stack' = SetTop([Top EXCEPT !.pc = "in"])
    /\ UNCHANGED << jira, args, accepted, startErr,
                    pc, rootIdx, returnCode, exitCode, linkSet, fc,
                    added, pending, clean, unresolved, calls, done >>

\* if link.InwardIssue != nil { li := ...; if !links.Exists(li.String())
\*     { AddLink(fc, li); links.Add(li.String()); getAllLinks(...) } }
InwardNew ==
    /\ InLoop
    /\ Top.pc = "in"
    /\ Link.InwardIssue # NoKey
    /\ LET li == InwardLink(Top.issue, Link)
       IN  /\ ~Exists(linkSet, String(li))
           /\ Len(stack) < MaxDepth
           /\ fc' = AddLink(fc, li)
           /\ added' = Append(added, li)
           /\ linkSet' = Add(linkSet, String(li))
           /\ stack' = Append(SetTop([Top EXCEPT !.pc = "out", !.i = @ + 1]),
                              Frame(LinkedIssue(Link.InwardIssue)))
    /\ calls' = calls + 1
    /\ UNCHANGED << jira, args, accepted, startErr,
                    pc, rootIdx, returnCode, exitCode, pending,
                    clean, unresolved, done >>

\* No inward reference, or its signature is in the set already: next link.
InwardSkip ==
    /\ InLoop
    /\ Top.pc = "in"
    /\ \/ Link.InwardIssue = NoKey
       \/ /\ Link.InwardIssue # NoKey
          /\ Exists(linkSet, String(InwardLink(Top.issue, Link)))
    /\ stack' = SetTop([Top EXCEPT !.pc = "out", !.i = @ + 1])
    /\ UNCHANGED << jira, args, accepted, startErr,
                    pc, rootIdx, returnCode, exitCode, linkSet, fc,
                    added, pending, clean, unresolved, calls, done >>

\* The loop is over: getAllLinks returns to its caller.
GetAllLinksReturn ==
    /\ pc = "traverse"
    /\ stack # << >>
    /\ Top.pc = "out"
    /\ Top.i > Len(Top.issue.IssueLinks)
    /\ stack' = SubSeq(stack, 1, Len(stack) - 1)
    /\ UNCHANGED << jira, args, accepted, startErr,
                    pc, rootIdx, returnCode, exitCode, linkSet, fc,
                    added, pending, clean, unresolved, calls, done >>

(* ---------------------------- specification --------------------------- *)

Next ==
    \/ Startup
    \/ GenDepFlowchartGetError
    \/ GenDepFlowchartIssue
    \/ GenDepFlowchartSearchError
    \/ GenDepFlowchartEpic
    \/ NextChild
    \/ GenDepFlowchartReturn
    \/ MainExit
    \/ GetAllLinksNoFetch
    \/ GetAllLinksFetch
    \/ GetAllLinksFetchError
    \/ OutwardNew
    \/ OutwardSkip
    \/ InwardNew
    \/ InwardSkip
    \/ GetAllLinksReturn

Spec == Init /\ [][Next]_vars

\* Every traversal step is taken: the program is one sequential thread
\* and each remote call returns.
\* One key on the command line.
InitOne == Init /\ Len(args) = 1

FairSpec == InitOne /\ [][Next]_vars /\ WF_vars(Next)

(* ------------------------- what the claims use ------------------------ *)

Range(seq) == { seq[i] : i \in 1..Len(seq) }

Count(seq, x) == Cardinality({ i \in 1..Len(seq) : seq[i] = x })

NoDuplicates(seq) == \A i, j \in 1..Len(seq) : seq[i] = seq[j] => i = j

\* The edge of an underlying link, as a JiraLink.
EdgeOf(e) == [From |-> e.from, Type |-> e.type, To |-> e.to]

\* The issues the link list of k refers to.
Linked(k) ==
    ({ l.OutwardIssue : l \in Range(RemoteLinks(k)) }
       \cup { l.InwardIssue : l \in Range(RemoteLinks(k)) }) \ {NoKey}

RECURSIVE Closure(_)
Closure(S) ==
    LET T == S \cup UNION { Linked(k) : k \in S }
    IN  IF T = S THEN S ELSE Closure(T)

\* The issues reachable from k by following links in either direction.
ReachIssues(k) == Closure({k})

\* The edges the link list of k shows.
EdgesOn(k) ==
    { [From |-> k, Type |-> l.Type, To |-> l.OutwardIssue] :
          l \in { m \in Range(RemoteLinks(k)) : m.OutwardIssue # NoKey } }
    \cup
    { [From |-> l.InwardIssue, Type |-> l.Type, To |-> k] :
          l \in { m \in Range(RemoteLinks(k)) : m.InwardIssue # NoKey } }

ReachEdges(k) == UNION { EdgesOn(j) : j \in ReachIssues(k) }

\* The records of the roots main is through with, read where they are
\* made: a record is appended by the step that returns to main's loop
\* (RecordsMadeInMain) and never changes afterwards.
Records == IF pc = "main" THEN Range(done) ELSE {}

RecordsMadeInMain ==
    [][done' # done => (pc' = "main" /\ SubSeq(done', 1, Len(done)) = done)]_vars

\* The model never meets its depth guard.
DepthWithinBound == Len(stack) < MaxDepth

(* ------------------------------- claims ------------------------------- *)

\* C1: within one root traversal AddLink is called at most once per edge
\* signature (from key, link-type name, to key), however often and along
\* however many paths the link is discovered.
C1_AddLinkOncePerSignature ==
    /\ NoDuplicates(added)
    /\ \A d \in Records : NoDuplicates(d.added)

\* C1 witness: the loop stands at an inward reference whose edge has been
\* passed to AddLink before.
C1_Witness ==
    /\ InLoop
    /\ Top.pc = "in"
    /\ Link.InwardIssue # NoKey
    /\ InwardLink(Top.issue, Link) \in Range(added)

\* The cycle A -> B -> C -> A of "blocks" links, every link shown on both ends.
CycleTracker ==
    /\ jira.links = {1, 2, 3}
    /\ jira.view = "both"
    /\ jira.epic = NoKey

CycleEdges == { EdgeOf(CandidateLinks[n]) : n \in {1, 2, 3} }

\* C2: every traversal returns unless a fetch fails, also on a cycle; on
\* the cycle A -> B -> C -> A the traversal from A ends having emitted
\* exactly the three edges of the cycle.
C2_TraversalTerminates ==
    /\ (pc = "traverse") ~> (pc = "main" \/ (pc = "panicked" /\ ~clean))
    /\ [](\A d \in Records :
             (CycleTracker /\ d.root = "A" /\ d.err = NoError)
                 => (Len(d.added) = 3 /\ Range(d.added) = CycleEdges))

\* C2 witness: the traversal of the cycle from A has returned.
C2_Witness ==
    /\ CycleTracker
    /\ \E d \in Records : d.root = "A" /\ Len(d.added) = 3

\* C3: for a root that is no Epic, when the traversal returns the emitted
\* edges are exactly the distinct (from, type, to) edges on the issues
\* reachable from the root; links of different types between the same two
\* issues are both emitted.
C3_EmitsReachableEdges ==
    \A d \in Records :
        (~d.epic /\ d.err = NoError) => Range(d.added) = ReachEdges(d.root)

\* C3 witness: a finished traversal that emitted both the Blocks and the
\* Relates link from A to B.
C3_Witness ==
    \E d \in Records :
        /\ ~d.epic
        /\ [From |-> "A", Type |-> "Blocks", To |-> "B"] \in Range(d.added)
        /\ [From |-> "A", Type |-> "Relates", To |-> "B"] \in Range(d.added)

\* C4: when the expansion fetch of an issue reached through a link fails,
\* the traversal is not aborted: the issue is a leaf and the traversal goes
\* on with the caller's remaining links.
C4_FetchErrorIsLeaf == ~(pc = "panicked" /\ Len(stack) > 1)

\* C5: when the first fetch of a root fails, genDepFlowchart returns an
\* error without calling getAllLinks and without a node or an edge for that
\* root, and main still goes through every remaining root.
C5_RootErrorSkipsTraversal ==
    /\ \A d \in Records :
          d.err = "error getting issue"
              => (d.calls = 0 /\ d.nodes = {} /\ d.edges = 0 /\ d.added = << >>)
    /\ pc = "main" => Len(done) = rootIdx - 1
    /\ (pc = "exited" /\ startErr = NoError) => Len(done) = Len(args)

\* C5 witness: the first root could not be fetched, the second was
\* traversed and emitted edges, and the process has exited.
C5_Witness ==
    /\ pc = "exited"
    /\ Len(done) = 2
    /\ done[1].err = "error getting issue"
    /\ done[2].err = NoError
    /\ Len(done[2].added) > 0

\* C6: the process exit code equals the number of roots that failed to
\* resolve (the issue, or in Epic mode its children, could not be
\* obtained), and is 0 when all resolve.
C6_ExitCodeCountsUnresolved ==
    (pc \in {"exited", "panicked"} /\ startErr = NoError)
        => exitCode = unresolved

\* C7: an invocation of getAllLinks fetches its issue exactly once, before
\* it looks at any link, when it is given an empty link list, and never when
\* it is given a non-empty one; a failed fetch is not repeated.
C7_OneFetchWhenNoLinks ==
    \A n \in 1..Len(stack) :
        LET f == stack[n]
        IN  /\ f.pc = "entry" => (f.fetches = 0 /\ f.i = 1)
            /\ f.pc # "entry" => f.fetches = (IF f.given = 0 THEN 1 ELSE 0)

\* C7 witness: a root given with its links is in its loop without a fetch,
\* and the linked issue it recursed into has been fetched once.
C7_Witness ==
    /\ Len(stack) = 2
    /\ stack[1].given > 0 /\ stack[1].fetches = 0 /\ stack[1].pc # "entry"
    /\ stack[2].given = 0 /\ stack[2].fetches = 1 /\ stack[2].pc # "entry"

\* The link objects of e on its source and on its destination.
OutObject(e) == LinkObjects(e, e.from, "outOnly")[1]
InObject(e) == LinkObjects(e, e.to, "inOnly")[1]

\* C8: a link shown as an outward reference on its source and as an inward
\* reference on its destination has one signature from both ends and is
\* emitted exactly once, from source to destination; with A -Blocks-> B
\* and B -Relates-> C the traversal from A emits exactly these two edges.
C8_BothEndsOneEdge ==
    /\ \A n \in 1..Len(CandidateLinks) :
          LET e == CandidateLinks[n]
          IN  String(OutwardLink(FullIssue(e.from), OutObject(e)))
                  = String(InwardLink(FullIssue(e.to), InObject(e)))
    /\ \A d \in Records :
          (jira.view = "both" /\ ~d.epic /\ d.err = NoError) =>
              /\ \A n \in jira.links :
                    CandidateLinks[n].from \in ReachIssues(d.root)
                        => Count(d.added, EdgeOf(CandidateLinks[n])) = 1
              /\ \A l \in Range(d.added) :
                    \E n \in jira.links : l = EdgeOf(CandidateLinks[n])
              /\ (jira.links = {1, 6} /\ d.root = "A")
                    => d.added = << EdgeOf(CandidateLinks[1]),
                                    EdgeOf(CandidateLinks[6]) >>

\* C8 witness: the traversal from A of A -Blocks-> B, B -Relates-> C, each
\* shown on both ends, has returned with two edges.
C8_Witness ==
    /\ jira.view = "both"
    /\ jira.links = {1, 6}
    /\ \E d \in Records : d.root = "A" /\ ~d.epic /\ Len(d.added) = 2

SelfEdge == EdgeOf(CandidateLinks[5])

\* C9: a link from A to itself is emitted exactly once as (A, type, A),
\* whether its link object carries the outward reference, the inward one or
\* both, and the traversal ends without an error of its own.
C9_SelfLoopOnce ==
    /\ Count(added, SelfEdge) <= 1
    /\ pc = "panicked" => ~clean
    /\ \A d \in Records :
          (5 \in jira.links /\ ~d.epic /\ d.err = NoError
             /\ "A" \in ReachIssues(d.root))
              => Count(d.added, SelfEdge) = 1

\* C9 witness: the traversal from A has returned, the link from A to itself
\* being one object with both references.
C9_Witness ==
    /\ jira.view = "joint"
    /\ \E d \in Records : d.root = "A" /\ d.err = NoError /\ SelfEdge \in Range(d.added)

\* C10: every root starts with an empty visited set and an empty graph: the
\* set and the graph hold what this root emitted and nothing else, a root
\* given twice emits the same both times, and an edge reachable from two
\* roots is emitted once for each.
C10_RootsAreIndependent ==
    /\ pc = "traverse" =>
          /\ linkSet = { String(l) : l \in Range(added) }
          /\ Len(fc.edges) = Len(added)
          /\ fc.nodes = { l.From : l \in Range(added) } \cup { l.To : l \in Range(added) }
    /\ \A d, e \in Records :
          (d.root = e.root /\ d.clean /\ e.clean)
              => (d.added = e.added /\ d.nodes = e.nodes)
    /\ \A d, e \in Records :
          (~e.epic /\ e.err = NoError) =>
              \A l \in Range(d.added) :
                  l \in ReachEdges(e.root) => Count(e.added, l) = 1

\* C10 witness: two different roots have been traversed and one edge was
\* emitted for both.
C10_Witness ==
    /\ Len(done) = 2
    /\ done[1].root # done[2].root
    /\ Range(done[1].added) \cap Range(done[2].added) # {}

\* The edge invocation n of getAllLinks was entered through: its caller is
\* at "in" when it recursed from the outward half of the link it is at, and
\* at "out", one link further, when it recursed from the inward half.
EnteredBy(n) ==
    LET caller == stack[n - 1]
    IN  IF caller.pc = "in"
        THEN OutwardLink(caller.issue, caller.issue.IssueLinks[caller.i])
        ELSE InwardLink(caller.issue, caller.issue.IssueLinks[caller.i - 1])

\* The edges of the flowchart, as JiraLinks without their type.
Drawn == { [From |-> fc.edges[i].from, To |-> fc.edges[i].to] :
               i \in 1..Len(fc.edges) }

\* C11: during the traversal of one root the visited set never loses an
\* element; every signature in it is the signature of an edge that was
\* passed to AddLink before; and the signature of an edge is in the set
\* before the traversal is inside the invocation for that edge's linked
\* issue.
C11_VisitedSetGrows ==
    /\ [][pc = "traverse" => linkSet \subseteq linkSet']_vars
    /\ [](\A s \in linkSet :
            \E l \in Range(added) :
                /\ s = String(l)
                /\ [From |-> l.From, To |-> l.To] \in Drawn)
    /\ [](\A n \in 2..Len(stack) :
            /\ String(EnteredBy(n)) \in linkSet
            /\ pc = "traverse" =>
                   stack[n].issue.Key \in {EnteredBy(n).From, EnteredBy(n).To})

\* C11 witness: the traversal is two invocations below the root's, and the
\* set holds the signatures of both edges it came through and one more.
C11_Witness ==
    /\ pc = "traverse"
    /\ Len(stack) = 3
    /\ EnteredBy(2) # EnteredBy(3)
    /\ Cardinality(linkSet) >= 3

SeedsLeft ==
    (IF stack # << >> THEN << stack[1].issue.Key >> ELSE << >>)
        \o [i \in 1..Len(pending) |-> pending[i].Key]

\* s is the last Len(s) elements of t.
IsSuffix(s, t) ==
    /\ Len(s) <= Len(t)
    /\ s = SubSeq(t, Len(t) - Len(s) + 1, Len(t))

\* What is reachable from the children the child search returns.
ChildReachIssues == UNION { ReachIssues(k) : k \in Range(jira.children) }

ChildReachEdges == UNION { ReachEdges(k) : k \in Range(jira.children) }

C14_SearchPageErrorReturned ==
    \A d \in Records :
        (d.epic /\ ~d.clean) => d.err # NoError

\* C15: for each root, main prints the diagram if and only if the
\* traversal emitted at least one edge, and prints "None" if and only if it
\* emitted none.
C15_DiagramIffEdges ==
    \A d \in Records :
        /\ d.out = "diagram" <=> d.edges > 0
        /\ d.out = "None" <=> d.edges = 0

====
